---- MODULE Spec2Model ----
(***************************************************************************)
(* Model of src/src/main.rs: an axum service keeping a Vec<PriceDto>       *)
(* behind Arc<RwLock<..>>, with five handlers (get_prices, create_price,   *)
(* get_price, update_price, delete_price) that run concurrently.           *)
(*                                                                         *)
(* `handlers` is the multiset of handler invocations in flight; h.pc is    *)
(* a handler's position.  A lock guard that is a temporary of a statement  *)
(* is released at the end of that statement; a guard bound to a local      *)
(* (`let mut prices = prices.write().unwrap()`) is released when the       *)
(* handler returns.                                                        *)
(*                                                                         *)
(* Uuid::new_v4() and std::sync::RwLock are library code.  They are        *)
(* modelled by their contracts: new_v4 returns a value it has not returned *)
(* before (the collision probability of 122 random bits is taken as zero), *)
(* and RwLock grants a write guard only when no guard is out and a read    *)
(* guard only when no write guard is out.                                  *)
(***************************************************************************)
EXTENDS Integers, Sequences, FiniteSets, Bags, TLC

\* ---- bounds ----
MaxReqs  == 2      \* handlers in flight at once
MaxIds   == 2      \* size of the Uuid universe
MaxCalls == 3      \* requests served in one behaviour

Ids == 1..MaxIds

\* ---- the two price values of the tests (lines 141, 186) ----
P100  == 100
P5000 == 5000
Prices == {P100, P5000}

\* ---- HTTP status codes ----
OK          == 200
NOT_FOUND   == 404
BAD_REQUEST == 400   \* axum's answer when Path<Uuid> or Json<CreatePrice> fails

VARIABLES
    prices,      \* the shared Vec<PriceDto> inside the RwLock
    readers,     \* RwLock state: number of read guards out
    writer,      \* RwLock state: TRUE while a write guard is out
    generated,   \* Uuids that new_v4 has already returned
    handlers,    \* bag of handler invocations in flight
    last,        \* the response delivered last, with its request
    \* history, not program state:
    calls,       \* requests routed so far
    asked,       \* prices the scenario's clients have sent so far (in the
                 \* sequential scenario, each with the position of its request)
    createdIds,  \* ids carried by the create responses delivered so far
    delInvoked,  \* ids for which a delete request has been routed
    deletedIds,  \* ids whose delete request has responded 200
    lockOrder,   \* ids of the creates, in the order they took the write guard
    nCreated,    \* number of create requests that have pushed
    nDeleted     \* number of delete requests that have responded 200

progVars == <<prices, readers, writer, generated, handlers, last>>
histVars == <<calls, asked, createdIds, delInvoked, deletedIds, lockOrder, nCreated, nDeleted>>
vars     == <<progVars, histVars>>

\* ---- data ----
PriceDto(i, p) == [id |-> i, price |-> p]

Ok(body) == [status |-> OK, body |-> body]
Err(code) == [status |-> code, body |-> <<>>]

NoLast == [op |-> "none", id |-> 0, input |-> 0, status |-> 0, body |-> <<>>,
           sawCreated |-> FALSE, sawDeleted |-> FALSE]

IdsOf(s) == {s[k].id : k \in 1..Len(s)}

\* a handler invocation: the handler it was routed to, its extracted
\* arguments (for create, `id` is the local of line 55), its position, and
\* get_price's local `prices` (the to_vec() copy).  sawCreated / sawDeleted
\* are history: whether a create response carrying `id` / a 200 delete
\* response for `id` had been delivered when the request arrived.
Handler(o, i, p, c, d) ==
    [op |-> o, id |-> i, input |-> p, pc |-> "start", copy |-> <<>>,
     sawCreated |-> c, sawDeleted |-> d]

InFlight == BagToSet(handlers)

\* number of handlers in flight at position q
At(q) ==
    LET S == {h \in InFlight : h.pc = q}
    IN  BagCardinality([h \in S |-> handlers[h]])

\* ---- std::sync::RwLock ----
CanReadBroken == TRUE
CanRead == ~writer

CanWriteBroken == ~writer
CanWrite == ~writer /\ readers = 0

\* ---- uuid::Uuid::new_v4 ----
new_v4 == Ids \ generated

\* ---- pure parts of the handlers ----
\* iter().position(|p| p.id == id): index of the first match, 0 for None
position(s, i) ==
    IF \E k \in 1..Len(s) : s[k].id = i
    THEN CHOOSE k \in 1..Len(s) : s[k].id = i /\ \A j \in 1..(k-1) : s[j].id # i
    ELSE 0

\* Vec::remove(index)
remove(s, k) == SubSeq(s, 1, k-1) \o SubSeq(s, k+1, Len(s))

\* Vec::push
pushNilId(s, i, p) == Append(s, PriceDto(1, p))
pushOverwrite(s, i, p) ==
    IF s = <<>> THEN <<PriceDto(i, p)>> ELSE [s EXCEPT ![Len(s)] = PriceDto(i, p)]
pushFront(s, i, p) == <<PriceDto(i, p)>> \o s
push(s, i, p) == Append(s, PriceDto(i, p))

\* get_price, lines 71-74: find on the copy
get_findOffByOne(s, i) ==
    LET k == position(s, i)
    IN  IF k > 1 THEN Ok(<<s[k]>>) ELSE Err(NOT_FOUND)
get_findFirst(s, i) ==
    IF s # <<>> THEN Ok(<<s[1]>>) ELSE Err(NOT_FOUND)
get_find(s, i) ==
    LET k == position(s, i)
    IN  IF k # 0 THEN Ok(<<s[k]>>) ELSE Err(NOT_FOUND)

\* update_price, lines 83-87: the collection after the body
update_vecAll(s, i, p) ==
    IF position(s, i) # 0 THEN [k \in 1..Len(s) |-> PriceDto(s[k].id, p)] ELSE s
update_vecUpsert(s, i, p) ==
    LET k == position(s, i)
    IN  IF k # 0 THEN [s EXCEPT ![k].price = p] ELSE Append(s, PriceDto(i, p))
update_vec(s, i, p) ==
    LET k == position(s, i)
    IN  IF k # 0 THEN [s EXCEPT ![k].price = p] ELSE s

\* update_price, lines 83-87: the result of the body
update_resultOld(s, i, p) ==
    LET k == position(s, i)
    IN  IF k # 0 THEN Ok(<<s[k]>>) ELSE Err(NOT_FOUND)
update_result(s, i, p) ==
    LET k == position(s, i)
    IN  IF k # 0 THEN Ok(<<update_vec(s, i, p)[k]>>) ELSE Err(NOT_FOUND)

\* delete_price, lines 95-99: the collection after the body
delete_vecOffByOne(s, i) ==
    LET k == position(s, i)
    IN  IF k # 0 THEN remove(s, k - 1) ELSE s
delete_vecPop(s, i) ==
    IF s # <<>> THEN SubSeq(s, 1, Len(s) - 1) ELSE s
delete_vecTruncate(s, i) ==
    LET k == position(s, i)
    IN  IF k # 0 THEN SubSeq(s, 1, k - 1) ELSE s
delete_vec(s, i) ==
    LET k == position(s, i)
    IN  IF k # 0 THEN remove(s, k) ELSE s

\* delete_price, lines 95-99: the result of the body
delete_result(s, i) ==
    IF position(s, i) # 0 THEN Ok(<<>>) ELSE Err(NOT_FOUND)

\* ---- initial state: main(), line 28 ----
Init ==
    /\ prices = <<>>
    /\ readers = 0
    /\ writer = FALSE
    /\ generated = {}
    /\ handlers = EmptyBag
    /\ last = NoLast
    /\ calls = 0
    /\ asked = {}
    /\ createdIds = {}
    /\ delInvoked = {}
    /\ deletedIds = {}
    /\ lockOrder = <<>>
    /\ nCreated = 0
    /\ nDeleted = 0

\* handler h moves on as h2
Step(h, h2) == handlers' = (handlers (-) SetToBag({h})) (+) SetToBag({h2})

\* handler h returns rs: the response is delivered
Respond(h, rs) ==
    /\ handlers' = handlers (-) SetToBag({h})
    /\ last' = [op |-> h.op, id |-> h.id, input |-> h.input,
                status |-> rs.status, body |-> rs.body,
                sawCreated |-> h.sawCreated, sawDeleted |-> h.sawDeleted]
    /\ createdIds' = IF h.op = "create" THEN createdIds \cup {rs.body[1].id}
                     ELSE createdIds
    /\ deletedIds' = IF h.op = "delete" /\ rs.status = OK
                     THEN deletedIds \cup {h.id} ELSE deletedIds
    /\ nCreated' = IF h.op = "create" THEN nCreated + 1 ELSE nCreated
    /\ nDeleted' = IF h.op = "delete" /\ rs.status = OK
                   THEN nDeleted + 1 ELSE nDeleted
    /\ UNCHANGED <<calls, asked, delInvoked, lockOrder>>

\* ---- routing: app(), lines 37-45 ----
\* a request arrives and is dispatched to handler o with its extracted
\* arguments
Dispatch(o, i, p) ==
    /\ BagCardinality(handlers) < MaxReqs
    /\ calls' = calls + 1
    /\ handlers' = handlers (+) SetToBag({Handler(o, i, p,
                        o \in {"get", "update"} /\ i \in createdIds,
                        o \in {"get", "update"} /\ i \in deletedIds)})
    /\ delInvoked' = IF o = "delete" THEN delInvoked \cup {i} ELSE delInvoked
    /\ UNCHANGED <<prices, readers, writer, generated, last, createdIds, deletedIds,
                   lockOrder, nCreated, nDeleted>>

Route(o, i, p) == calls < MaxCalls /\ Dispatch(o, i, p)

\* a create can only be served while new_v4 has a value left for it
IdsLeft ==
    LET S == {h \in InFlight : h.op = "create" /\ h.pc = "start"}
    IN  MaxIds - Cardinality(generated) - BagCardinality([h \in S |-> handlers[h]])

RouteList   == Route("list", 0, 0) /\ UNCHANGED asked
RouteCreate ==
    /\ IdsLeft > 0
    /\ \E p \in Prices : Route("create", 0, p)
    /\ UNCHANGED asked
RouteGet    == (\E i \in Ids : Route("get", i, 0)) /\ UNCHANGED asked
RouteUpdate == (\E i \in Ids, p \in Prices : Route("update", i, p)) /\ UNCHANGED asked
RouteDelete == (\E i \in Ids : Route("delete", i, 0)) /\ UNCHANGED asked

\* a path id that is no Uuid, or a body that is no CreatePrice: the
\* extractor answers and the handler body never runs (lines 53, 68, 79, 80,
\* 92)
Rejected == [op |-> "rejected", id |-> 0, input |-> 0, status |-> BAD_REQUEST,
             body |-> <<>>, sawCreated |-> FALSE, sawDeleted |-> FALSE]

Reject ==
    /\ last' = Rejected
    /\ UNCHANGED <<prices, readers, writer, generated, handlers, histVars>>

\* ---- get_prices, lines 47-49 ----
get_prices_read(h) ==
    /\ h.op = "list" /\ h.pc = "start"
    /\ CanRead
    /\ readers' = readers + 1
    /\ Step(h, [h EXCEPT !.pc = "rlocked"])
    /\ UNCHANGED <<prices, writer, generated, last, histVars>>

get_prices_return(h) ==
    /\ h.op = "list" /\ h.pc = "rlocked"
    /\ readers' = readers - 1
    /\ Respond(h, Ok(prices))
    /\ UNCHANGED <<prices, writer, generated>>

\* ---- create_price, lines 51-64 ----
create_price_new_id(h) ==
    /\ h.op = "create" /\ h.pc = "start"
    /\ \E i \in new_v4 :
        /\ Step(h, [h EXCEPT !.pc = "gen", !.id = i])
        /\ generated' = generated \cup {i}
    /\ UNCHANGED <<prices, readers, writer, last, histVars>>

create_price_write(h) ==
    /\ h.op = "create" /\ h.pc = "gen"
    /\ CanWrite
    /\ writer' = TRUE
    /\ Step(h, [h EXCEPT !.pc = "wlocked"])
    /\ lockOrder' = Append(lockOrder, h.id)
    /\ UNCHANGED <<prices, readers, generated, last, calls, asked, createdIds,
                   delInvoked, deletedIds, nCreated, nDeleted>>

create_price_push(h) ==
    /\ h.op = "create" /\ h.pc = "wlocked"
    /\ prices' = push(prices, h.id, h.input)
    /\ writer' = FALSE
    /\ Respond(h, Ok(<<PriceDto(h.id, h.input)>>))
    /\ UNCHANGED <<readers, generated>>

\* ---- get_price, lines 66-75 ----
get_price_read(h) ==
    /\ h.op = "get" /\ h.pc = "start"
    /\ CanRead
    /\ readers' = readers + 1
    /\ Step(h, [h EXCEPT !.pc = "rlocked"])
    /\ UNCHANGED <<prices, writer, generated, last, histVars>>

get_price_to_vecHold(h) ==
    /\ h.op = "get" /\ h.pc = "rlocked"
    /\ Step(h, [h EXCEPT !.pc = "copied", !.copy = prices])
    /\ UNCHANGED <<prices, readers, writer, generated, last, histVars>>
get_price_to_vec(h) ==
    /\ h.op = "get" /\ h.pc = "rlocked"
    /\ readers' = readers - 1
    /\ Step(h, [h EXCEPT !.pc = "copied", !.copy = prices])
    /\ UNCHANGED <<prices, writer, generated, last, histVars>>

get_price_return(h) ==
    /\ h.op = "get" /\ h.pc = "copied"
    /\ Respond(h, get_find(h.copy, h.id))
    /\ UNCHANGED <<prices, readers, writer, generated>>

\* ---- update_price, lines 77-88 ----
update_price_write(h) ==
    /\ h.op = "update" /\ h.pc = "start"
    /\ CanWrite
    /\ writer' = TRUE
    /\ Step(h, [h EXCEPT !.pc = "wlocked"])
    /\ UNCHANGED <<prices, readers, generated, last, histVars>>

update_price_return(h) ==
    /\ h.op = "update" /\ h.pc = "wlocked"
    /\ prices' = update_vec(prices, h.id, h.input)
    /\ writer' = FALSE
    /\ Respond(h, update_result(prices, h.id, h.input))
    /\ UNCHANGED <<readers, generated>>

\* ---- delete_price, lines 90-100 ----
delete_price_write(h) ==
    /\ h.op = "delete" /\ h.pc = "start"
    /\ CanWrite
    /\ writer' = TRUE
    /\ Step(h, [h EXCEPT !.pc = "wlocked"])
    /\ UNCHANGED <<prices, readers, generated, last, histVars>>

delete_price_returnLeak(h) ==
    /\ h.op = "delete" /\ h.pc = "wlocked"
    /\ prices' = delete_vec(prices, h.id)
    /\ writer' = (delete_result(prices, h.id).status # OK)
    /\ Respond(h, delete_result(prices, h.id))
    /\ UNCHANGED <<readers, generated>>
delete_price_return(h) ==
    /\ h.op = "delete" /\ h.pc = "wlocked"
    /\ prices' = delete_vec(prices, h.id)
    /\ writer' = FALSE
    /\ Respond(h, delete_result(prices, h.id))
    /\ UNCHANGED <<readers, generated>>

HandlerStep(h) ==
    \/ get_prices_read(h)
    \/ get_prices_return(h)
    \/ create_price_new_id(h)
    \/ create_price_write(h)
    \/ create_price_push(h)
    \/ get_price_read(h)
    \/ get_price_to_vec(h)
    \/ get_price_return(h)
    \/ update_price_write(h)
    \/ update_price_return(h)
    \/ delete_price_write(h)
    \/ delete_price_return(h)

Next ==
    \/ RouteList
    \/ RouteCreate
    \/ RouteGet
    \/ RouteUpdate
    \/ RouteDelete
    \/ Reject
    \/ \E h \in InFlight : HandlerStep(h)

Spec == Init /\ [][Next]_vars

\* ---- fair scheduling: the runtime keeps running the handlers, and a
\* ---- handler that waits for the lock gets it once it is free.  Requests
\* ---- arrive as they please.
Progress == \E h \in InFlight : HandlerStep(h)

SpecFair == Spec /\ WF_vars(Progress)

\* ---- the concurrent scenario: only create requests, no price twice ----
ScenarioPrices == 1..(MaxReqs + 1)

RouteCreateDistinct ==
    \E p \in ScenarioPrices \ asked :
        /\ Cardinality(asked) < MaxIds
        /\ Route("create", 0, p)
        /\ asked' = asked \cup {p}

NextCreates ==
    \/ RouteCreateDistinct
    \/ \E h \in InFlight : create_price_new_id(h)
    \/ \E h \in InFlight : create_price_write(h)
    \/ \E h \in InFlight : create_price_push(h)

SpecCreates == Init /\ [][NextCreates]_vars

\* ---- the sequential scenario: one client, each request sent when the
\* ---- response to the one before has arrived
ScenarioPost ==
    /\ handlers = EmptyBag /\ calls = 0
    /\ \E p \in Prices : Dispatch("create", 0, p) /\ asked' = {<<calls, p>>}

ScenarioList ==
    /\ handlers = EmptyBag /\ calls = 1
    /\ Dispatch("list", 0, 0)
    /\ UNCHANGED asked

ScenarioPatch ==
    /\ handlers = EmptyBag /\ calls = 2
    /\ \E i \in createdIds, p \in Prices :
        Dispatch("update", i, p) /\ asked' = asked \cup {<<calls, p>>}

ScenarioDelete ==
    /\ handlers = EmptyBag /\ calls = 3
    /\ \E i \in createdIds : Dispatch("delete", i, 0)
    /\ UNCHANGED asked

ScenarioGet ==
    /\ handlers = EmptyBag /\ calls = 4
    /\ \E i \in createdIds : Dispatch("get", i, 0)
    /\ UNCHANGED asked

NextScenario ==
    \/ ScenarioPost
    \/ ScenarioList
    \/ ScenarioPatch
    \/ ScenarioDelete
    \/ ScenarioGet
    \/ \E h \in InFlight : HandlerStep(h)

SpecScenario == Init /\ [][NextScenario]_vars

\* a handler returned in this step; last' is its response
Returned == BagCardinality(handlers') < BagCardinality(handlers)

\* the handler that returned in this step
Returning(h) == h \in InFlight /\ handlers' = handlers (-) SetToBag({h})

\* ---------------------------------------------------------------------
\* C1: in every reachable state no two records of the collection have
\* the same id.
UniqueIds ==
    \A j, k \in 1..Len(prices) : j # k => prices[j].id # prices[k].id

\* two records are in the collection, the second just created
UniqueIdsWitness ==
    /\ Len(prices) = 2
    /\ prices[1].id # prices[2].id
    /\ last.op = "create"

\* ---------------------------------------------------------------------
\* C3 (under SpecCreates): every create response carries a record that is
\* in the collection with the requested price; and once all N create
\* requests, of N distinct prices, have responded, the collection holds N
\* records with N distinct ids and exactly the requested prices.
ConcurrentCreates ==
    /\ last.op = "create" =>
        /\ last.status = OK
        /\ Len(last.body) = 1
        /\ last.body[1].price = last.input
        /\ \E k \in 1..Len(prices) : prices[k] = last.body[1]
        /\ \A k \in 1..Len(prices) :
               prices[k].id = last.body[1].id => prices[k].price = last.input
    /\ handlers = EmptyBag =>
        /\ Len(prices) = Cardinality(asked)
        /\ Cardinality(IdsOf(prices)) = Len(prices)
        /\ {prices[k].price : k \in 1..Len(prices)} = asked

\* two creates have both responded, the higher price pushed first
ConcurrentCreatesWitness ==
    /\ handlers = EmptyBag
    /\ Len(prices) = 2
    /\ prices[1].price > prices[2].price
    /\ calls = 2

\* ---------------------------------------------------------------------
\* C4: at most one handler holds the lock in write mode; while a create,
\* update or delete handler holds it no other handler holds it in either
\* mode; list and get only ever hold it in read mode.
LockDiscipline ==
    /\ At("wlocked") <= 1
    /\ At("wlocked") = 1 => At("rlocked") = 0
    /\ \A h \in InFlight :
        /\ h.pc = "wlocked" => h.op \in {"create", "update", "delete"}
        /\ h.pc = "rlocked" => h.op \in {"list", "get"}
        /\ h.op \in {"list", "get"} => h.pc # "wlocked"
        /\ h.op \in {"create", "update", "delete"} => h.pc # "rlocked"
    /\ writer <=> At("wlocked") = 1
    /\ readers = At("rlocked")

\* several readers hold the lock at the same time
LockDisciplineWitness ==
    /\ At("rlocked") >= 2
    /\ \E h \in InFlight : h.pc = "rlocked" /\ h.op = "list"
    /\ \E h \in InFlight : h.pc = "rlocked" /\ h.op = "get"

\* ---------------------------------------------------------------------
\* C2: a get(id) that arrives after a create response carrying id was
\* delivered returns 200 with a record of that id, provided no delete(id)
\* has been routed by the time it returns; a get(id) that arrives after a
\* delete(id) responded 200 returns 404.
Linearizable ==
    [][\A h \in InFlight : (Returning(h) /\ h.op = "get") =>
        /\ (h.sawCreated /\ h.id \notin delInvoked) =>
                /\ last'.status = OK
                /\ Len(last'.body) = 1
                /\ last'.body[1].id = h.id
        /\ h.sawDeleted => last'.status = NOT_FOUND]_vars

\* a get that arrived after the delete of its id has answered 404, and
\* the id had been created before
LinearizableWitness ==
    /\ last.op = "get" /\ last.sawDeleted /\ last.sawCreated
    /\ last.status = NOT_FOUND
    /\ last.id \in createdIds

\* ---------------------------------------------------------------------
\* C5: create(p) returns 200 with the record {id, p}, where id is in no
\* record of the collection and was in none that was deleted, and a get(id)
\* on the collection as create leaves it returns exactly that record.
CreateContract ==
    [][\A h \in InFlight : (Returning(h) /\ h.op = "create") =>
        /\ last'.status = OK
        /\ last'.body = <<PriceDto(h.id, h.input)>>
        /\ h.id \notin IdsOf(prices)
        /\ h.id \notin deletedIds
        /\ get_find(prices', h.id) = Ok(<<PriceDto(h.id, h.input)>>)]_vars

\* a create has answered on a collection that already held a record
CreateContractWitness ==
    /\ last.op = "create" /\ last.status = OK
    /\ Len(prices) = 2
    /\ prices[2] = last.body[1]

\* ---------------------------------------------------------------------
\* C6: update(id, p) on an id in the collection returns 200 with {id, p};
\* the length and every id and position are unchanged, the record of that
\* id has price p and every other record keeps its price.
UpdateExisting ==
    [][\A h \in InFlight :
        (Returning(h) /\ h.op = "update" /\ h.id \in IdsOf(prices)) =>
            /\ last'.status = OK
            /\ last'.body = <<PriceDto(h.id, h.input)>>
            /\ Len(prices') = Len(prices)
            /\ \A k \in 1..Len(prices) :
                /\ prices'[k].id = prices[k].id
                /\ prices'[k].price =
                     IF prices[k].id = h.id THEN h.input ELSE prices[k].price]_vars

\* an update has answered 200 while another record holds a different price
UpdateExistingWitness ==
    /\ last.op = "update" /\ last.status = OK
    /\ \E k \in 1..Len(prices) : prices[k] = last.body[1]
    /\ \E k \in 1..Len(prices) :
        prices[k].id # last.id /\ prices[k].price # last.input

\* ---------------------------------------------------------------------
\* C7: delete(id) on an id in the collection returns 200; the collection
\* is then the old one without the record of that id, one shorter, every
\* other record unchanged and in place; and once a delete(id) has answered
\* 200, a get on the collection finds no record of that id, in every
\* later state.
DeleteExisting ==
    [][/\ \A h \in InFlight :
            (Returning(h) /\ h.op = "delete" /\ h.id \in IdsOf(prices)) =>
                /\ last'.status = OK
                /\ last'.body = <<>>
                /\ Len(prices') = Len(prices) - 1
                /\ h.id \notin IdsOf(prices')
                /\ prices' = SelectSeq(prices, LAMBDA rec : rec.id # h.id)
       /\ \A i \in deletedIds' : get_find(prices', i) = Err(NOT_FOUND)]_vars

\* a delete has answered 200 and left the other record in the collection
DeleteExistingWitness ==
    /\ last.op = "delete" /\ last.status = OK
    /\ last.id \in deletedIds
    /\ Len(prices) = 1
    /\ prices[1].id # last.id

\* ---------------------------------------------------------------------
\* C8: update(id, p) on an id that no record has answers 404 and leaves
\* the collection as it was.
UpdateMissing ==
    [][\A h \in InFlight :
        (Returning(h) /\ h.op = "update" /\ h.id \notin IdsOf(prices)) =>
            /\ last'.status = NOT_FOUND
            /\ last'.body = <<>>
            /\ prices' = prices]_vars

\* an update of an absent id has answered 404 on a non-empty collection
UpdateMissingWitness ==
    /\ last.op = "update" /\ last.status = NOT_FOUND
    /\ prices # <<>>
    /\ last.id \notin IdsOf(prices)

\* ---------------------------------------------------------------------
\* C9: delete(id) on an id that no record has answers 404 and leaves the
\* collection, and so its size, as it was.
DeleteMissing ==
    [][\A h \in InFlight :
        (Returning(h) /\ h.op = "delete" /\ h.id \notin IdsOf(prices)) =>
            /\ last'.status = NOT_FOUND
            /\ Len(prices') = Len(prices)
            /\ prices' = prices]_vars

\* a delete of an absent id has answered 404 on a non-empty collection
DeleteMissingWitness ==
    /\ last.op = "delete" /\ last.status = NOT_FOUND
    /\ prices # <<>>
    /\ last.id \notin IdsOf(prices)

\* ---------------------------------------------------------------------
\* C10: get(id) copies the collection as it is under the read lock and
\* answers 200 with the record of that id when the copy has one, 404 when
\* it has none (so 404 for every id on an empty collection); no step of a
\* get changes the collection.
GetContract ==
    [][\A h \in InFlight : h.op = "get" =>
        /\ \A h2 \in BagToSet(handlers') :
               (h.pc = "rlocked" /\ h2.pc = "copied" /\ Step(h, h2)) =>
                   h2.copy = prices /\ prices' = prices
        /\ (h.pc = "start" /\ Step(h, [h EXCEPT !.pc = "rlocked"])) =>
               prices' = prices
        /\ Returning(h) =>
            /\ prices' = prices
            /\ h.id \in IdsOf(h.copy) =>
                /\ last'.status = OK
                /\ Len(last'.body) = 1
                /\ last'.body[1].id = h.id
                /\ \E k \in 1..Len(h.copy) : h.copy[k] = last'.body[1]
            /\ h.id \notin IdsOf(h.copy) =>
                /\ last'.status = NOT_FOUND
                /\ last'.body = <<>>]_vars

\* a get has answered 200 with the second record of the collection
GetContractWitness ==
    /\ last.op = "get" /\ last.status = OK
    /\ Len(prices) = 2
    /\ prices[2] = last.body[1]
    /\ prices[2].id = last.id

\* the ids of a collection, in collection order
IdSeq(s) == [k \in 1..Len(s) |-> s[k].id]

\* ---------------------------------------------------------------------
\* C11: list answers 200 with exactly the collection as it is at the
\* instant of its copy, in collection order; at that instant no handler
\* holds the write guard, so the copy is no half-done create, update or
\* delete; no step of a list changes the collection.
ListSnapshot ==
    [][\A h \in InFlight : h.op = "list" =>
        /\ (h.pc = "start" /\ Step(h, [h EXCEPT !.pc = "rlocked"])) =>
               prices' = prices
        /\ Returning(h) =>
            /\ last'.status = OK
            /\ last'.body = prices
            /\ prices' = prices
            /\ ~writer
            /\ At("wlocked") = 0]_vars

\* a list has answered with the two records of the collection
ListSnapshotWitness ==
    /\ last.op = "list" /\ last.status = OK
    /\ Len(last.body) = 2
    /\ last.body[1].id # last.body[2].id
    /\ last.body = prices

\* ---------------------------------------------------------------------
\* C12: every step leaves the ids of the collection, in order, as they
\* were, except that a create return appends one id that no record had and
\* a 200 delete return takes out the one id it was asked to; an update
\* return never changes the ids.
IdsStable ==
    [][/\ \/ IdSeq(prices') = IdSeq(prices)
          \/ \E h \in InFlight :
                /\ Returning(h) /\ h.op = "create"
                /\ h.id \notin IdsOf(prices)
                /\ IdSeq(prices') = Append(IdSeq(prices), h.id)
          \/ \E h \in InFlight :
                /\ Returning(h) /\ h.op = "delete" /\ last'.status = OK
                /\ h.id \in IdsOf(prices)
                /\ IdsOf(prices') = IdsOf(prices) \ {h.id}
                /\ IdSeq(prices') = SelectSeq(IdSeq(prices), LAMBDA i : i # h.id)
       /\ \A h \in InFlight :
            (Returning(h) /\ h.op = "update") => IdSeq(prices') = IdSeq(prices)]_vars

\* an update has answered 200 on a collection of two records
IdsStableWitness ==
    /\ last.op = "update" /\ last.status = OK
    /\ Len(prices) = 2
    /\ last.id \in IdsOf(prices)

\* ---------------------------------------------------------------------
\* C13: a request that fails (404 from get, update or delete, 400 from an
\* extractor) leaves the collection, the generated ids and the other
\* requests as they were, and holds no lock afterwards: a failing update
\* or delete gives its write guard back, a failing get held none at its
\* return.
FailureHarmless ==
    [][((Returned \/ last' # last) /\ last'.status # OK) =>
        /\ prices' = prices
        /\ generated' = generated
        /\ readers' = readers
        /\ \A h \in InFlight : Returning(h) =>
            /\ h.op \in {"get", "update", "delete"}
            /\ h.op \in {"update", "delete"} => ~writer'
            /\ h.op = "get" => writer' = writer
        /\ ~Returned => (handlers' = handlers /\ writer' = writer)]_vars

\* an update of an absent id has failed while records are stored, and the
\* service is idle with the lock free
FailureHarmlessWitness ==
    /\ last.op = "update" /\ last.status = NOT_FOUND
    /\ prices # <<>>
    /\ handlers = EmptyBag
    /\ ~writer /\ readers = 0

\* ---------------------------------------------------------------------
\* C14 (under SpecScenario): POST {price: p1}, GET /prices, PATCH id1
\* {price: p2}, DELETE id1, GET id1 answer in this order: 200 with a
\* generated id1 and p1; the list of the one record {id1, p1}; 200 with
\* {id1, p2}; 200; 404.  With p1 = 100 and p2 = 5000 this is the scenario
\* of the specification.
Scenario ==
    (handlers = EmptyBag /\ calls > 0) =>
        /\ Cardinality(createdIds) = 1
        /\ createdIds \subseteq generated
        /\ \E p \in Prices : <<0, p>> \in asked
        /\ \A id1 \in createdIds, p1 \in Prices : <<0, p1>> \in asked =>
            /\ calls = 1 => /\ last.op = "create" /\ last.status = OK
                            /\ last.body = <<PriceDto(id1, p1)>>
            /\ calls = 2 => /\ last.op = "list" /\ last.status = OK
                            /\ last.body = <<PriceDto(id1, p1)>>
            /\ calls = 3 => /\ last.op = "update" /\ last.status = OK
                            /\ <<2, last.input>> \in asked
                            /\ last.body = <<PriceDto(id1, last.input)>>
            /\ calls = 4 => /\ last.op = "delete" /\ last.id = id1
                            /\ last.status = OK /\ last.body = <<>>
            /\ calls = 5 => /\ last.op = "get" /\ last.id = id1
                            /\ last.status = NOT_FOUND

\* the scenario with the prices 100 and 5000 has ended with the 404
ScenarioWitness ==
    /\ handlers = EmptyBag /\ calls = 5
    /\ asked = {<<0, P100>>, <<2, P5000>>}
    /\ last.op = "get" /\ last.status = NOT_FOUND
    /\ last.sawCreated /\ last.sawDeleted
    /\ prices = <<>>

LengthCount == Len(prices) = nCreated - nDeleted

\* two creates and one successful delete have completed
LengthCountWitness ==
    /\ nCreated = 2 /\ nDeleted = 1
    /\ Len(prices) = 1
    /\ last.op = "delete" /\ last.status = OK

\* ---------------------------------------------------------------------
\* C18: for an id whose create has responded, with updates and deletes of
\* it in flight together: a delete that returns while no delete of the id
\* has answered 200 answers 200 and the record is gone; an update that
\* returns (it holds the write guard from its acquisition to its return)
\* answers 200 with {id, p} if no delete of the id has answered 200 yet,
\* and 404 without touching the collection otherwise; no record of a
\* deleted id is ever stored again.
UpdateDeleteRace ==
    [][/\ \A i \in deletedIds' : i \notin IdsOf(prices')
       /\ \A h \in InFlight : (Returning(h) /\ h.id \in createdIds) =>
            /\ (h.op = "delete" /\ h.id \notin deletedIds) =>
                   /\ last'.status = OK
                   /\ h.id \notin IdsOf(prices')
            /\ (h.op = "update" /\ h.id \notin deletedIds) =>
                   /\ last'.status = OK
                   /\ last'.body = <<PriceDto(h.id, h.input)>>
                   /\ h.id \in IdsOf(prices')
            /\ (h.op = "update" /\ h.id \in deletedIds) =>
                   /\ last'.status = NOT_FOUND
                   /\ prices' = prices]_vars

\* an update that arrived while the record was stored and no delete had
\* answered has lost the race for the write guard to a delete: 404
UpdateDeleteRaceWitness ==
    /\ last.op = "update" /\ last.status = NOT_FOUND
    /\ last.sawCreated /\ ~last.sawDeleted
    /\ last.id \in deletedIds
    /\ last.id \notin IdsOf(prices)

\* ---------------------------------------------------------------------
\* C19: an update that answers 200 answers with {id, p} for its own p, and
\* at its return the stored price of id is p; no other step changes the
\* price of a stored record.  So the stored price of id is the p of the
\* update of id that held the write guard last.
UpdateLastWins ==
    [][/\ \A h \in InFlight :
            (Returning(h) /\ h.op = "update" /\ last'.status = OK) =>
                /\ last'.body = <<PriceDto(h.id, h.input)>>
                /\ \E k \in 1..Len(prices') : prices'[k] = PriceDto(h.id, h.input)
       /\ \A k \in 1..Len(prices), j \in 1..Len(prices') :
            (prices[k].id = prices'[j].id /\ prices[k].price # prices'[j].price) =>
                \E h \in InFlight : /\ Returning(h) /\ h.op = "update"
                                     /\ h.id = prices[k].id
                                     /\ prices'[j].price = h.input]_vars

\* one update of an id has answered 200 with price 100, which is stored,
\* while another update of the same id, with price 5000, holds the guard
UpdateLastWinsWitness ==
    /\ last.op = "update" /\ last.status = OK /\ last.input = P100
    /\ PriceDto(last.id, P100) \in {prices[k] : k \in 1..Len(prices)}
    /\ \E h \in InFlight : /\ h.op = "update" /\ h.pc = "wlocked"
                             /\ h.id = last.id /\ h.input = P5000

\* ---------------------------------------------------------------------
\* C15 (under SpecFair): a handler that holds a guard, or has given it
\* back, can always take its next step: it waits for nothing; whenever a
\* request is pending some handler can step; when no request is pending
\* the lock is free; and every request that was routed responds: from
\* some time on no request is pending.
EventuallyResponds ==
    /\ [](\A h \in InFlight :
            h.pc \in {"rlocked", "wlocked", "copied"} => ENABLED HandlerStep(h))
    /\ [](handlers # EmptyBag => ENABLED Progress)
    /\ [](handlers = EmptyBag => (~writer /\ readers = 0))
    /\ <>[](handlers = EmptyBag)

\* a delete holds the write guard and a get waits for the lock, after an
\* update has answered 404
EventuallyRespondsWitness ==
    /\ writer
    /\ \E h \in InFlight : h.op = "delete" /\ h.pc = "wlocked"
    /\ \E h \in InFlight : h.op = "get" /\ h.pc = "start"
    /\ last.op = "update" /\ last.status = NOT_FOUND
====
